---------------------------- MODULE Spec2Model ----------------------------
(***************************************************************************)
(* Model of the two release scripts of llm-regression-tester:              *)
(*   pre_publish_checklist.py  five checks over the working directory and  *)
(*                             main(), which runs them and sets the exit   *)
(*                             code;                                       *)
(*   test_import.py            the import smoke test.                      *)
(*                                                                         *)
(* File contents are TLA+ strings, read character by character with        *)
(* SubSeq, so the substring tests and the regular expressions of the       *)
(* scripts are computed on the text itself.  A text is what f.read() gives, *)
(* over the characters U+0000 to U+00FF, the ones a string of this module  *)
(* can hold; case folding and the class \s are those of Python on that     *)
(* range.  The status glyphs the scripts                                   *)
(* print are not ASCII; they are written here as the tags [?] (magnifier), *)
(* [X] (cross), [OK] (check mark), [!] (warning sign), [#] (clipboard),    *)
(* [=] (chart), [*] (party), [>] (rocket) and [P] (package).               *)
(***************************************************************************)
EXTENDS Integers, Sequences, FiniteSets, TLC

VARIABLES
    fs,          \* the working directory: path -> [kind, text]
    given,       \* what the input was built from (never read by the program)
    pkg,         \* test_import.py: how the package behaves when imported
    sys_path,    \* test_import.py: sys.path
    pc,          \* position of the running script
    iter,        \* main(): how many entries of checks the for loop has taken
    all_passed,  \* main(): all_passed
    results,     \* main(): results, a list of (check name, outcome)
    out,         \* the lines printed so far on standard output
    err,         \* the lines written so far on standard error
    ret,         \* the outcome of the one check a single-check run calls
    rv,          \* main()'s return value (NoValue until it returns)
    status       \* the process exit status (NoValue while running)

vars == <<fs, given, pkg, sys_path, pc, iter, all_passed, results, out, err, ret, rv, status>>

---------------------------------------------------------------------------
(* Bounds of the inputs. *)

\* the longest document, in lines, of the version check's inputs
MaxLines == 2
\* the most blanks written before an equals sign in a metadata document
MaxPad == 2
\* the most required fields a metadata document leaves out
MaxMissing == 2
\* the most entries of a dependencies array
MaxDeps == 2

NoValue == "none"

---------------------------------------------------------------------------
(* Python strings. *)

Char(s, i) == IF i >= 1 /\ i <= Len(s) THEN SubSeq(s, i, i) ELSE ""

\* p in s
Contains(s, p) ==
    \E i \in 1..(Len(s) - Len(p) + 1) : SubSeq(s, i, i + Len(p) - 1) = p

\* the cased letters that str.lower() changes, and what it changes them to
UpperLetters == "ABCDEFGHIJKLMNOPQRSTUVWXYZÀÁÂÃÄÅÆÇÈÉÊËÌÍÎÏÐÑÒÓÔÕÖØÙÚÛÜÝÞ"
LowerLetters == "abcdefghijklmnopqrstuvwxyzàáâãäåæçèéêëìíîïðñòóôõöøùúûüýþ"

LowerChar(c) ==
    IF \E i \in 1..Len(UpperLetters) : Char(UpperLetters, i) = c
    THEN Char(LowerLetters, CHOOSE i \in 1..Len(UpperLetters) : Char(UpperLetters, i) = c)
    ELSE c

RECURSIVE LowerFrom(_, _)
LowerFrom(s, i) ==
    IF i > Len(s) THEN "" ELSE LowerChar(Char(s, i)) \o LowerFrom(s, i + 1)

\* forgetting to fold the case
LowerNoFold(s) == s

\* s.lower()
Lower(s) == LowerFrom(s, 1)

(* The characters the class \s of a str pattern matches: the blank, tab, line
   feed, carriage return, form feed, then U+000B, U+001C to U+001F, U+0085
   and U+00A0. *)
SpaceChars == " \t\n\r\f "

\* the regular expression class \s
IsSpace(c) == \E i \in 1..Len(SpaceChars) : Char(SpaceChars, i) = c

\* \s* from position i: the first position at or after i holding no blank
RECURSIVE SkipSpace(_, _)
SkipSpace(s, i) ==
    IF i <= Len(s) /\ IsSpace(Char(s, i)) THEN SkipSpace(s, i + 1) ELSE i

\* the first position at or after i that holds c, or 0
RECURSIVE FindChar(_, _, _)
FindChar(s, c, i) ==
    IF i > Len(s) THEN 0
    ELSE IF Char(s, i) = c THEN i
    ELSE FindChar(s, c, i + 1)

NoMatch == [found |-> FALSE, group |-> ""]

\* key\s*=\s*"([^"]+)" matched at position i
MatchQuotedAt(key, s, i) ==
    IF SubSeq(s, i, i + Len(key) - 1) # key THEN NoMatch
    ELSE LET eq == SkipSpace(s, i + Len(key)) IN
         IF Char(s, eq) # "=" THEN NoMatch
         ELSE LET q1 == SkipSpace(s, eq + 1) IN
              IF Char(s, q1) # "\"" THEN NoMatch
              ELSE LET q2 == FindChar(s, "\"", q1 + 1) IN
                   IF q2 = 0 \/ q2 = q1 + 1 THEN NoMatch
                   ELSE [found |-> TRUE, group |-> SubSeq(s, q1 + 1, q2 - 1)]

\* key\s*=\s*\[(.*?)\] with re.DOTALL, matched at position i
MatchArrayAt(key, s, i) ==
    IF SubSeq(s, i, i + Len(key) - 1) # key THEN NoMatch
    ELSE LET eq == SkipSpace(s, i + Len(key)) IN
         IF Char(s, eq) # "=" THEN NoMatch
         ELSE LET b1 == SkipSpace(s, eq + 1) IN
              IF Char(s, b1) # "[" THEN NoMatch
              ELSE LET b2 == FindChar(s, "]", b1 + 1) IN
                   IF b2 = 0 THEN NoMatch
                   ELSE [found |-> TRUE, group |-> SubSeq(s, b1 + 1, b2 - 1)]

Starts(key, s) == 1..(Len(s) - Len(key) + 1)

Least(S) == CHOOSE i \in S : \A j \in S : i <= j

\* re.search(r'<key>\s*=\s*"([^"]+)"', s): the leftmost match
SearchQuoted(key, s) ==
    LET at == {i \in Starts(key, s) : MatchQuotedAt(key, s, i).found} IN
    IF at = {} THEN NoMatch ELSE MatchQuotedAt(key, s, Least(at))

\* re.search(r'<key>\s*=\s*\[(.*?)\]', s, re.DOTALL): the leftmost match
SearchArray(key, s) ==
    LET at == {i \in Starts(key, s) : MatchArrayAt(key, s, i).found} IN
    IF at = {} THEN NoMatch ELSE MatchArrayAt(key, s, Least(at))

RECURSIVE JoinRepr(_, _)
JoinRepr(l, i) ==
    IF i > Len(l) THEN ""
    ELSE (IF i > 1 THEN ", " ELSE "") \o "'" \o l[i] \o "'" \o JoinRepr(l, i + 1)

\* str() of a list of plain strings, as an f-string formats it
ListRepr(l) == "[" \o JoinRepr(l, 1) \o "]"

---------------------------------------------------------------------------
(* The working directory. *)

README == "README.md"
LICENSE == "LICENSE"
PYPROJECT == "pyproject.toml"
INIT_PY == "src/llm_regression_tester/__init__.py"
TESTER_PY == "src/llm_regression_tester/llm_regression_tester.py"
VERSION_PY == "src/llm_regression_tester/_version.py"
TEST_BASIC == "tests/test_basic.py"

Absent == [kind |-> "absent", text |-> ""]
Dir == [kind |-> "dir", text |-> ""]
File(t) == [kind |-> "file", text |-> t]

\* Path(p).exists(): a directory exists too
Exists(f, p) == f[p].kind # "absent"

\* open(p, 'r') of an existing path fails on a directory
OpenFails(f, p) == f[p].kind = "dir"

\* str() of the IsADirectoryError that open() raises
IsADirectoryError(p) == "[Errno 21] Is a directory: '" \o p \o "'"

(* What a call of a check does: it returns value, or raises exc, having
   printed out; listed is the list its failure line reports. *)
Return(v, lines, l) ==
    [raised |-> FALSE, value |-> v, out |-> lines, listed |-> l, exc |-> ""]
Raise(e, lines) ==
    [raised |-> TRUE, value |-> FALSE, out |-> lines, listed |-> <<>>, exc |-> e]

---------------------------------------------------------------------------
(* pre_publish_checklist.py: the five checks. *)

\* the comparison of the two version tokens, made on something else
SameVersionLoose(a, b) == Len(a) = Len(b)

\* pyproject_version != version_py_version, negated
SameVersion(a, b) == a = b

check_version_consistency(f) ==
    LET l0 == <<"[?] Checking version consistency...">> IN
    IF ~Exists(f, PYPROJECT)
    THEN Return(FALSE, l0 \o <<"   [X] pyproject.toml not found">>, <<>>)
    ELSE IF OpenFails(f, PYPROJECT) THEN Raise(IsADirectoryError(PYPROJECT), l0)
    ELSE LET pyproject_match == SearchQuoted("version", f[PYPROJECT].text) IN
    IF ~pyproject_match.found
    THEN Return(FALSE, l0 \o <<"   [X] Version not found in pyproject.toml">>, <<>>)
    ELSE IF ~Exists(f, VERSION_PY)
    THEN Return(FALSE, l0 \o <<"   [X] _version.py not found">>, <<>>)
    ELSE IF OpenFails(f, VERSION_PY) THEN Raise(IsADirectoryError(VERSION_PY), l0)
    ELSE LET version_match == SearchQuoted("__version__", f[VERSION_PY].text) IN
    IF ~version_match.found
    THEN Return(FALSE, l0 \o <<"   [X] Version not found in _version.py">>, <<>>)
    ELSE IF ~SameVersion(pyproject_match.group, version_match.group)
    THEN Return(FALSE,
                l0 \o <<"   [X] Version mismatch: pyproject.toml=" \o pyproject_match.group
                        \o ", _version.py=" \o version_match.group>>,
                <<pyproject_match.group, version_match.group>>)
    ELSE Return(TRUE,
                l0 \o <<"   [OK] Version " \o pyproject_match.group \o " is consistent">>,
                <<>>)

\* the list with its last path left out
required_files_short ==
    <<README, LICENSE, PYPROJECT, INIT_PY, TESTER_PY, VERSION_PY>>

\* the list without the package descriptor
required_files_no_pyproject ==
    <<README, LICENSE, INIT_PY, TESTER_PY, VERSION_PY, TEST_BASIC>>

required_files ==
    <<README, LICENSE, PYPROJECT, INIT_PY, TESTER_PY, VERSION_PY, TEST_BASIC>>

\* the loop over required_files from its i-th path on
RECURSIVE MissingFiles(_, _)
MissingFiles(f, i) ==
    IF i > Len(required_files) THEN <<>>
    ELSE (IF ~Exists(f, required_files[i]) THEN <<required_files[i]>> ELSE <<>>)
         \o MissingFiles(f, i + 1)

check_required_files(f) ==
    LET l0 == <<"", "[?] Checking required files...">>
        missing_files == MissingFiles(f, 1)
    IN  IF missing_files # <<>>
        THEN Return(FALSE,
                    l0 \o <<"   [X] Missing required files: " \o ListRepr(missing_files)>>,
                    missing_files)
        ELSE Return(TRUE, l0 \o <<"   [OK] All required files are present">>, <<>>)

required_fields ==
    <<"name", "version", "description", "authors", "license", "requires-python",
      "dependencies">>

\* f'{field} =' not in content and f'{field}=' not in content
FieldMissing(content, field) ==
    ~Contains(content, field \o " =") /\ ~Contains(content, field \o "=")

RECURSIVE MissingFields(_, _)
MissingFields(content, i) ==
    IF i > Len(required_fields) THEN <<>>
    ELSE (IF FieldMissing(content, required_fields[i]) THEN <<required_fields[i]>> ELSE <<>>)
         \o MissingFields(content, i + 1)

check_package_metadata(f) ==
    LET l0 == <<"", "[?] Checking package metadata...">> IN
    IF ~Exists(f, PYPROJECT)
    THEN Return(FALSE, l0 \o <<"   [X] pyproject.toml not found">>, <<>>)
    ELSE IF OpenFails(f, PYPROJECT) THEN Raise(IsADirectoryError(PYPROJECT), l0)
    ELSE LET missing_fields == MissingFields(f[PYPROJECT].text, 1) IN
    IF missing_fields # <<>>
    THEN Return(FALSE,
                l0 \o <<"   [X] Missing metadata fields: " \o ListRepr(missing_fields)>>,
                missing_fields)
    ELSE Return(TRUE, l0 \o <<"   [OK] Package metadata is complete">>, <<>>)

required_sections == <<"installation", "usage", "example">>

RECURSIVE MissingSections(_, _)
MissingSections(content, i) ==
    IF i > Len(required_sections) THEN <<>>
    ELSE (IF ~Contains(content, required_sections[i]) THEN <<required_sections[i]>> ELSE <<>>)
         \o MissingSections(content, i + 1)

check_readme(f) ==
    LET l0 == <<"", "[?] Checking README...">> IN
    IF ~Exists(f, README)
    THEN Return(FALSE, l0 \o <<"   [X] README.md not found">>, <<>>)
    ELSE IF OpenFails(f, README) THEN Raise(IsADirectoryError(README), l0)
    ELSE LET content == Lower(f[README].text)
             missing_sections == MissingSections(content, 1)
         IN
    IF missing_sections # <<>>
    THEN Return(FALSE,
                l0 \o <<"   [X] README missing sections: " \o ListRepr(missing_sections)>>,
                missing_sections)
    ELSE Return(TRUE, l0 \o <<"   [OK] README contains essential information">>, <<>>)

check_dependencies(f) ==
    LET l0 == <<"", "[?] Checking dependencies...">> IN
    IF ~Exists(f, PYPROJECT)
    THEN Return(FALSE, l0 \o <<"   [X] pyproject.toml not found">>, <<>>)
    ELSE IF OpenFails(f, PYPROJECT) THEN Raise(IsADirectoryError(PYPROJECT), l0)
    ELSE LET core_deps_match == SearchArray("dependencies", f[PYPROJECT].text) IN
    IF core_deps_match.found /\ Contains(Lower(core_deps_match.group), "openai")
    THEN Return(FALSE,
                l0 \o <<"   [!]  OpenAI is in core dependencies - consider moving to optional dependencies">>,
                <<>>)
    ELSE Return(TRUE, l0 \o <<"   [OK] Dependencies look reasonable">>, <<>>)

---------------------------------------------------------------------------
(* pre_publish_checklist.py: main(). *)

\* the names of the list checks, in its order
checks ==
    <<"Version Consistency", "Required Files", "Package Metadata", "README Content",
      "Dependencies">>

\* check_func() of the i-th entry of checks
CheckFunc(i, f) ==
    CASE i = 1 -> check_version_consistency(f)
      [] i = 2 -> check_required_files(f)
      [] i = 3 -> check_package_metadata(f)
      [] i = 4 -> check_readme(f)
      [] i = 5 -> check_dependencies(f)

Banner == <<"============================================================">>

\* the try branch with the flag left alone
TryBranchKeepsFlag(check_name, r, res, ap) ==
    [results |-> Append(res, <<check_name, r.value>>), all_passed |-> ap, out |-> r.out]

\* the try branch of the loop body: the check returned
TryBranch(check_name, r, res, ap) ==
    [results    |-> Append(res, <<check_name, r.value>>),
     all_passed |-> IF ~r.value THEN FALSE ELSE ap,
     out        |-> r.out]

\* the except branch recording nothing
ExceptBranchDrops(check_name, r, res, ap) ==
    [results    |-> res,
     all_passed |-> FALSE,
     out        |-> r.out \o <<"   [X] Error in " \o check_name \o ": " \o r.exc>>]

\* the except branch with the flag left alone
ExceptBranchKeepsFlag(check_name, r, res, ap) ==
    [results    |-> Append(res, <<check_name, FALSE>>),
     all_passed |-> ap,
     out        |-> r.out \o <<"   [X] Error in " \o check_name \o ": " \o r.exc>>]

\* the except branch of the loop body: the check raised an Exception
ExceptBranch(check_name, r, res, ap) ==
    [results    |-> Append(res, <<check_name, FALSE>>),
     all_passed |-> FALSE,
     out        |-> r.out \o <<"   [X] Error in " \o check_name \o ": " \o r.exc>>]

\* one row of the summary table
SummaryRow(entry) == entry[1] \o ": " \o (IF entry[2] THEN "[OK] PASSED" ELSE "[X] FAILED")

RECURSIVE SummaryRows(_, _)
SummaryRows(res, i) ==
    IF i > Len(res) THEN <<>> ELSE <<SummaryRow(res[i])>> \o SummaryRows(res, i + 1)

PublishingSteps ==
    <<"[*] ALL CHECKS PASSED! Ready for publishing.",
      "", "[>] Publishing steps:",
      "1. Update version number if needed",
      "2. Run: python -m build",
      "3. Run: twine check dist/*",
      "4. Run: twine upload dist/*",
      "5. Create git tag: git tag v{version}",
      "6. Push tag: git push origin v{version}">>

\* lines 175-188: the header, all_passed = True, results = []
MainBegin ==
    /\ pc = "main"
    /\ out' = out \o Banner \o <<"[#] PRE-PUBLISHING CHECKLIST - LLM Regression Tester">> \o Banner
    /\ all_passed' = TRUE
    /\ results' = <<>>
    /\ iter' = 0
    /\ pc' = "loop"
    /\ UNCHANGED <<err, fs, given, pkg, sys_path, ret, rv, status>>

\* lines 190-199: one iteration of the loop over checks
LoopBody ==
    /\ pc = "loop"
    /\ LET i == iter + 1
           r == CheckFunc(i, fs)
           n == IF r.raised THEN ExceptBranch(checks[i], r, results, all_passed)
                ELSE TryBranch(checks[i], r, results, all_passed)
       IN  /\ results' = n.results
           /\ all_passed' = n.all_passed
           /\ out' = out \o n.out
           /\ iter' = i
           /\ pc' = IF i = Len(checks) THEN "summary" ELSE "loop"
    /\ UNCHANGED <<err, fs, given, pkg, sys_path, ret, rv, status>>

\* lines 201-223: the summary table, the closing banner and the return value
Summary ==
    /\ pc = "summary"
    /\ out' = out \o <<"">> \o Banner \o <<"[=] CHECKLIST SUMMARY">> \o Banner
                  \o SummaryRows(results, 1)
                  \o <<"">> \o Banner
                  \o (IF all_passed THEN PublishingSteps
                      ELSE <<"[X] SOME CHECKS FAILED! Please fix issues before publishing.">>)
    /\ rv' = IF all_passed THEN 0 ELSE 1
    /\ pc' = "returned"
    /\ UNCHANGED <<err, fs, given, iter, pkg, sys_path, all_passed, results, ret, status>>

\* line 226: sys.exit(main())
SysExit ==
    /\ pc = "returned"
    /\ status' = rv
    /\ pc' = "done"
    /\ UNCHANGED <<err, fs, given, iter, pkg, sys_path, all_passed, results, out, ret, rv>>

---------------------------------------------------------------------------
(* test_import.py *)

SrcPath == "src"
SitePath == "site-packages"
PackageName == "llm_regression_tester"

\* except ImportError: the classes it catches
IsImportError(cls) == cls \in {"ImportError", "ModuleNotFoundError"}

(* Python's "from llm_regression_tester import LLMRegressionTester, __version__"
   with search path p: the package is looked up, its code is run, and the two
   names are read from it in turn. *)
FromImport(k, p) ==
    IF ~\E i \in 1..Len(p) : p[i] = k.where
    THEN [cls |-> "ModuleNotFoundError", msg |-> "No module named '" \o PackageName \o "'"]
    ELSE IF k.load # "ok" THEN [cls |-> k.load, msg |-> k.msg]
    ELSE IF "LLMRegressionTester" \notin k.names
    THEN [cls |-> "ImportError",
          msg |-> "cannot import name 'LLMRegressionTester' from '" \o PackageName \o "' ("
                  \o k.where \o "/" \o PackageName \o "/__init__.py)"]
    ELSE IF "__version__" \notin k.names
    THEN [cls |-> "ImportError",
          msg |-> "cannot import name '__version__' from '" \o PackageName \o "' ("
                  \o k.where \o "/" \o PackageName \o "/__init__.py)"]
    ELSE [cls |-> "ok", msg |-> ""]

\* lines 10-12: put the src directory first on sys.path unless it is on it
AdjustPath ==
    /\ pc = "script"
    /\ sys_path' = IF \E i \in 1..Len(sys_path) : sys_path[i] = SrcPath
                   THEN sys_path ELSE <<SrcPath>> \o sys_path
    /\ pc' = "try"
    /\ UNCHANGED <<err, fs, given, iter, pkg, all_passed, results, out, ret, rv, status>>

\* lines 15-18: the import succeeds; the script runs off its end
ImportSucceeds ==
    /\ pc = "try"
    /\ FromImport(pkg, sys_path).cls = "ok"
    /\ out' = out \o <<"[OK] Import successful!",
                       "[P] Package version: " \o pkg.version,
                       "[*] Ready to use LLMRegressionTester!">>
    /\ status' = 0
    /\ pc' = "exited"
    /\ UNCHANGED <<err, fs, given, iter, pkg, sys_path, all_passed, results, ret, rv>>

\* lines 19-21: the import raises an ImportError
ImportFails ==
    /\ pc = "try"
    /\ LET e == FromImport(pkg, sys_path) IN
       /\ e.cls # "ok" /\ IsImportError(e.cls)
       /\ out' = out \o <<"[X] Import failed: " \o e.msg>>
    /\ status' = 1
    /\ pc' = "exited"
    /\ UNCHANGED <<err, fs, given, iter, pkg, sys_path, all_passed, results, ret, rv>>

ScriptFile == "<dir>/test_import.py"
PackageFile(k) == k.where \o "/" \o PackageName \o "/__init__.py"

(* What the interpreter writes for an exception nothing catches: the frame of
   the import statement, the frames of the package (the statement of its
   __init__.py that fails), then the exception; for a syntax error the place
   and the text of the error rather than str() of it. *)
Traceback(k) ==
    <<"Traceback (most recent call last):",
      "  File \"" \o ScriptFile \o "\", line 15, in <module>",
      "    from llm_regression_tester import LLMRegressionTester, __version__">>
    \o (CASE k.load = "ValueError" ->
              <<"  File \"" \o PackageFile(k) \o "\", line 1, in <module>",
                "    raise ValueError('invalid configuration')",
                "ValueError: invalid configuration">>
           [] k.load = "SyntaxError" ->
              <<"  File \"" \o PackageFile(k) \o "\", line 3",
                "    x = = 1",
                "        ^",
                "SyntaxError: invalid syntax">>)

(* The import raises an exception that is no ImportError: no except clause
   matches, nothing more is printed, and the interpreter writes the traceback
   to standard error and exits with status 1. *)
ImportUncaught ==
    /\ pc = "try"
    /\ LET e == FromImport(pkg, sys_path) IN
       /\ e.cls # "ok" /\ ~IsImportError(e.cls)
       /\ err' = err \o Traceback(pkg)
    /\ status' = 1
    /\ pc' = "exited"
    /\ UNCHANGED <<fs, given, iter, pkg, sys_path, all_passed, results, out, ret, rv>>

---------------------------------------------------------------------------
(* A single check called on its own: the call and its return. *)

Call(at, r) ==
    /\ pc = at
    /\ ret' = r
    /\ out' = out \o r.out
    /\ pc' = "returned"
    /\ UNCHANGED <<err, fs, given, iter, pkg, sys_path, all_passed, results, rv, status>>

CallVersionConsistency == Call("check_version_consistency", check_version_consistency(fs))
CallRequiredFiles == Call("check_required_files", check_required_files(fs))
CallPackageMetadata == Call("check_package_metadata", check_package_metadata(fs))
CallReadme == Call("check_readme", check_readme(fs))
CallDependencies == Call("check_dependencies", check_dependencies(fs))

---------------------------------------------------------------------------
(* Inputs. *)

NoCall == [raised |-> FALSE, value |-> FALSE, out |-> <<>>, listed |-> <<>>, exc |-> ""]
NoPackage == [where |-> "none", load |-> "ok", msg |-> "", names |-> {}, version |-> ""]

\* the sequences over S of at most n elements
SeqsUpTo(S, n) == UNION {[1..k -> S] : k \in 0..n}

RECURSIVE JoinLines(_, _)
JoinLines(lines, i) ==
    IF i > Len(lines) THEN "" ELSE lines[i].text \o "\n" \o JoinLines(lines, i + 1)

EmptyDirectory == [p \in {README, LICENSE, PYPROJECT, INIT_PY, TESTER_PY, VERSION_PY, TEST_BASIC} |-> Absent]

\* a file's state from its description: absent, a directory, or lines of text
Place(d) ==
    CASE d.kind = "absent" -> Absent
      [] d.kind = "dir" -> Dir
      [] d.kind = "file" -> File(JoinLines(d.lines, 1))

Descriptions(pool, n) ==
    {[kind |-> "absent", lines |-> <<>>], [kind |-> "dir", lines |-> <<>>]}
    \cup {[kind |-> "file", lines |-> l] : l \in SeqsUpTo(pool, n)}

(* Lines of a pyproject.toml; token is the version token the line carries
   (a key ending in version, an equals sign, a non-empty double-quoted text),
   empty if it carries none.  One line writes U+000B before the equals sign
   and U+001F after it.  The texts of the inputs are ASCII: TLC does not keep
   a character above U+007F intact in a state it has stored. *)
PyprojectLines ==
    {[text |-> "name = \"pkg\"", token |-> ""],
     [text |-> "version = \"1.0.0\"", token |-> "1.0.0"],
     [text |-> "version=\"1.0.1\"", token |-> "1.0.1"],
     [text |-> "version=\"1.0.0\"", token |-> "1.0.0"],
     [text |-> "version = '1.0.0'", token |-> ""],
     [text |-> "target-version = \"py38\"", token |-> "py38"]}

\* lines of a _version.py; token is the __version__ token the line carries
VersionPyLines ==
    {[text |-> "# the version of the package", token |-> ""],
     [text |-> "__version__ = \"1.0.0\"", token |-> "1.0.0"],
     [text |-> "__version__=\"1.0.1\"", token |-> "1.0.1"],
     [text |-> "__version__ = '1.0.0'", token |-> ""]}

VersionInputs ==
    {[py |-> a, ver |-> b] : a \in Descriptions(PyprojectLines, MaxLines),
                             b \in Descriptions(VersionPyLines, MaxLines)}

\* every way the seven required paths exist as files, exist as directories or do not
FilesInputs == [DOMAIN EmptyDirectory -> {Absent, Dir, File("")}]

FieldValue(field) ==
    CASE field = "name" -> "\"pkg\""
      [] field = "version" -> "\"1.0.0\""
      [] field = "description" -> "\"A regression tester\""
      [] field = "authors" -> "[\"K\"]"
      [] field = "license" -> "\"MIT\""
      [] field = "requires-python" -> "\">=3.8\""
      [] field = "dependencies" -> "[\"pyyaml\"]"
      [] field = "target-version" -> "\"py38\""
      [] field = "optional-dependencies" -> "{dev = [\"pytest\"]}"

\* keys that are no required field and end with the name of one
ExtraKeys == <<"target-version", "optional-dependencies">>

RECURSIVE Blanks(_)
Blanks(n) == IF n = 0 THEN "" ELSE " " \o Blanks(n - 1)

RECURSIVE MetadataLines(_, _, _, _)
MetadataLines(keys, keep, pad, i) ==
    IF i > Len(keys) THEN ""
    ELSE (IF keys[i] \in keep
          THEN keys[i] \o Blanks(pad) \o "= " \o FieldValue(keys[i]) \o "\n"
          ELSE "")
         \o MetadataLines(keys, keep, pad, i + 1)

Range(l) == {l[i] : i \in DOMAIN l}

(* A metadata document: the required fields but those of missing, then the
   extra keys of extras, every key followed by pad blanks and an equals sign. *)
MetadataText(d) ==
    "[project]\n"
    \o MetadataLines(required_fields, Range(required_fields) \ d.missing, d.pad, 1)
    \o MetadataLines(ExtraKeys, d.extras, d.pad, 1)

MetadataInputs ==
    {[pad |-> n, missing |-> m, extras |-> x] :
        n \in 0..MaxPad,
        m \in {m \in SUBSET Range(required_fields) : Cardinality(m) <= MaxMissing},
        x \in SUBSET Range(ExtraKeys)}

\* entries of a dependencies array; openai tells whether the entry names openai
DependencyEntries ==
    {[text |-> "\"pyyaml>=6.0\"", openai |-> FALSE],
     [text |-> "\"requests[security]\"", openai |-> FALSE],
     [text |-> "\"openai>=1.0\"", openai |-> TRUE],
     [text |-> "\"OpenAI\"", openai |-> TRUE]}

RECURSIVE JoinEntries(_, _, _)
JoinEntries(entries, sep, i) ==
    IF i > Len(entries) THEN ""
    ELSE (IF i > 1 THEN sep ELSE "") \o entries[i].text \o JoinEntries(entries, sep, i + 1)

(* A pyproject.toml with, if array, a dependencies array of entries written
   on one line or one entry a line, and, if optional, a table of optional
   dependencies that names openai. *)
DependenciesText(d) ==
    "[project]\nname = \"pkg\"\n"
    \o (IF d.array
        THEN IF d.multiline
             THEN "dependencies = [\n    " \o JoinEntries(d.entries, ",\n    ", 1) \o "\n]\n"
             ELSE "dependencies = [" \o JoinEntries(d.entries, ", ", 1) \o "]\n"
        ELSE "")
    \o (IF d.optional THEN "[project.optional-dependencies]\nllm = [\"openai\"]\n" ELSE "")

DependenciesInputs ==
    {[kind |-> k, array |-> FALSE, entries |-> <<>>, multiline |-> FALSE, optional |-> FALSE] :
        k \in {"absent", "dir"}}
    \cup {[kind |-> "file", array |-> FALSE, entries |-> <<>>, multiline |-> FALSE, optional |-> o] :
        o \in BOOLEAN}
    \cup {[kind |-> "file", array |-> TRUE, entries |-> e, multiline |-> m, optional |-> o] :
        e \in SeqsUpTo(DependencyEntries, MaxDeps), m \in BOOLEAN, o \in BOOLEAN}

\* how a readme writes a section heading, if at all
Spellings == {"none", "lower", "title", "upper", "partial"}

Heading(section, spelling) ==
    CASE spelling = "none" -> ""
      [] spelling = "lower" -> "## " \o section \o "\n"
      [] spelling = "title" /\ section = "installation" -> "## Installation\n"
      [] spelling = "title" /\ section = "usage" -> "## Usage\n"
      [] spelling = "title" /\ section = "example" -> "## Examples\n"
      [] spelling = "upper" /\ section = "installation" -> "## INSTALLATION\n"
      [] spelling = "upper" /\ section = "usage" -> "## USAGE\n"
      [] spelling = "upper" /\ section = "example" -> "## EXAMPLE\n"
      [] spelling = "partial" /\ section = "installation" -> "## Install\n"
      [] spelling = "partial" /\ section = "usage" -> "## Use\n"
      [] spelling = "partial" /\ section = "example" -> "## Sample\n"

ReadmeText(d) ==
    "# Project\n"
    \o Heading("installation", d.spelling["installation"])
    \o Heading("usage", d.spelling["usage"])
    \o Heading("example", d.spelling["example"])

ReadmeInputs ==
    {[kind |-> k, spelling |-> [s \in Range(required_sections) |-> "none"]] :
        k \in {"absent", "dir"}}
    \cup {[kind |-> "file", spelling |-> sp] : sp \in [Range(required_sections) -> Spellings]}

\* the documents main() is run on
CompleteMetadata == [pad |-> 1, missing |-> {}, extras |-> {"target-version"}]

MainPyprojects ==
    {Absent, Dir,
     File(MetadataText(CompleteMetadata)),
     File(MetadataText([CompleteMetadata EXCEPT !.missing = {"license"}])),
     File("[project]\nname = \"pkg\"\nversion = \"1.0.1\"\ndescription = \"d\"\nauthors = []\n"
          \o "license = \"MIT\"\nrequires-python = \">=3.8\"\ndependencies = [\"openai\"]\n")}

MainVersionPys ==
    {Absent, Dir, File("__version__ = \"1.0.0\"\n"), File("__version__ = '1.0.0'\n")}

MainReadmes ==
    {Absent, Dir,
     File("# Project\n## Installation\n## Usage\n## Examples\n"),
     File("# Project\n## Installation\n## Usage\n")}

MainInputs ==
    {f \in [DOMAIN EmptyDirectory -> MainPyprojects \cup MainVersionPys \cup MainReadmes \cup {File("")}] :
        /\ f[PYPROJECT] \in MainPyprojects
        /\ f[VERSION_PY] \in MainVersionPys
        /\ f[README] \in MainReadmes
        /\ \A p \in {LICENSE, INIT_PY, TESTER_PY, TEST_BASIC} : f[p] \in {Absent, File("")}}

LoadOutcomes == {"ok", "ImportError", "ModuleNotFoundError", "ValueError", "SyntaxError"}

\* str() of what the package's own code raises
LoadMessage(l) ==
    CASE l = "ok" -> ""
      [] l = "ImportError" -> "cannot import name 'safe_load' from 'yaml'"
      [] l = "ModuleNotFoundError" -> "No module named 'yaml'"
      [] l = "ValueError" -> "invalid configuration"
      [] l = "SyntaxError" -> "invalid syntax (__init__.py, line 3)"

Packages ==
    {[where |-> w, load |-> l, msg |-> LoadMessage(l),
      names |-> n, version |-> v] :
        w \in {"none", SrcPath, SitePath}, l \in LoadOutcomes,
        n \in SUBSET {"LLMRegressionTester", "__version__"}, v \in {"1.0.0", "0.2.1"}}

SearchPaths == {<<"">>, <<"", SitePath>>, <<SrcPath, "", SitePath>>, <<"", SitePath, SrcPath>>}

---------------------------------------------------------------------------
(* Specifications. *)

\* everything but the input, as it is before the script runs
Idle(start) ==
    /\ pc = start
    /\ iter = 0
    /\ all_passed = FALSE
    /\ results = <<>>
    /\ out = <<>>
    /\ err = <<>>
    /\ ret = NoCall
    /\ rv = NoValue
    /\ status = NoValue

\* python pre_publish_checklist.py in a working directory
Init ==
    /\ fs \in MainInputs
    /\ given = "main"
    /\ pkg = NoPackage /\ sys_path = <<>>
    /\ Idle("main")

Next == MainBegin \/ LoopBody \/ Summary \/ SysExit

Spec == Init /\ [][Next]_vars

\* check_version_consistency() on its own
InitVersion ==
    /\ given \in VersionInputs
    /\ fs = [EmptyDirectory EXCEPT ![PYPROJECT] = Place(given.py),
                                   ![VERSION_PY] = Place(given.ver)]
    /\ pkg = NoPackage /\ sys_path = <<>>
    /\ Idle("check_version_consistency")

SpecVersion == InitVersion /\ [][CallVersionConsistency]_vars

\* check_required_files() on its own
InitFiles ==
    /\ fs \in FilesInputs
    /\ given = "files"
    /\ pkg = NoPackage /\ sys_path = <<>>
    /\ Idle("check_required_files")

SpecFiles == InitFiles /\ [][CallRequiredFiles]_vars

\* check_package_metadata() on its own
InitMetadata ==
    /\ given \in MetadataInputs
    /\ fs = [EmptyDirectory EXCEPT ![PYPROJECT] = File(MetadataText(given))]
    /\ pkg = NoPackage /\ sys_path = <<>>
    /\ Idle("check_package_metadata")

SpecMetadata == InitMetadata /\ [][CallPackageMetadata]_vars

\* check_readme() on its own
InitReadme ==
    /\ given \in ReadmeInputs
    /\ fs = [EmptyDirectory EXCEPT ![README] =
                CASE given.kind = "absent" -> Absent
                  [] given.kind = "dir" -> Dir
                  [] given.kind = "file" -> File(ReadmeText(given))]
    /\ pkg = NoPackage /\ sys_path = <<>>
    /\ Idle("check_readme")

SpecReadme == InitReadme /\ [][CallReadme]_vars

\* check_dependencies() on its own
InitDependencies ==
    /\ given \in DependenciesInputs
    /\ fs = [EmptyDirectory EXCEPT ![PYPROJECT] =
                CASE given.kind = "absent" -> Absent
                  [] given.kind = "dir" -> Dir
                  [] given.kind = "file" -> File(DependenciesText(given))]
    /\ pkg = NoPackage /\ sys_path = <<>>
    /\ Idle("check_dependencies")

SpecDependencies == InitDependencies /\ [][CallDependencies]_vars

\* python test_import.py
InitImport ==
    /\ pkg \in Packages
    /\ sys_path \in SearchPaths
    /\ given = "import"
    /\ fs = EmptyDirectory
    /\ Idle("script")

NextImport == AdjustPath \/ ImportSucceeds \/ ImportFails \/ ImportUncaught

SpecImport == InitImport /\ [][NextImport]_vars

---------------------------------------------------------------------------
(* Properties of main(). *)

Finished == pc \in {"returned", "done"}

\* check i, called on directory f, returned True
ReturnedTrue(i, f) == ~CheckFunc(i, f).raised /\ CheckFunc(i, f).value

\* the first line each check prints, in the order of the list checks
CheckHeadings ==
    <<"[?] Checking version consistency...", "[?] Checking required files...",
      "[?] Checking package metadata...", "[?] Checking README...",
      "[?] Checking dependencies...">>

FiveChecks ==
    <<"Version Consistency", "Required Files", "Package Metadata", "README Content",
      "Dependencies">>

IsHeading(line) == \E i \in 1..Len(CheckHeadings) : line = CheckHeadings[i]

IsSummaryRow(line) ==
    \E i \in 1..Len(FiveChecks) :
        line \in {FiveChecks[i] \o ": [OK] PASSED", FiveChecks[i] \o ": [X] FAILED"}

ErrorLine(i) == "   [X] Error in " \o FiveChecks[i] \o ": " \o CheckFunc(i, fs).exc

(* C1: main() returns 0 if and only if every one of the five checks returned
   True, and 1 in every other case (a check returned False or raised); the
   process exit code is that return value. *)
C1_ExitCode ==
    /\ Finished => /\ rv \in {0, 1}
                   /\ rv = 0 <=> \A i \in 1..Len(FiveChecks) : ReturnedTrue(i, fs)
    /\ pc = "done" => status = rv

\* a run that exits with 0, every check having returned True
C1_Witness ==
    pc = "done" /\ status = 0 /\ \A i \in 1..Len(FiveChecks) : ReturnedTrue(i, fs)

(* C2: each of the five checks is invoked exactly once, in the fixed order,
   whatever the earlier checks returned: after k iterations the first k
   checks and no others have started, results holds their k entries in that
   order, the loop ends only with five entries, and the summary prints one
   PASSED/FAILED row per entry in that order. *)
C2_FixedOrder ==
    /\ iter \in 0..Len(FiveChecks)
    /\ Len(results) = iter
    /\ \A i \in 1..Len(results) : results[i][1] = FiveChecks[i]
    /\ SelectSeq(out, IsHeading) = SubSeq(CheckHeadings, 1, iter)
    /\ pc \in {"summary", "returned", "done"} => iter = Len(FiveChecks)
    /\ SelectSeq(out, IsSummaryRow) =
          IF Finished
          THEN [i \in 1..Len(FiveChecks) |->
                   FiveChecks[i] \o (IF results[i][2] THEN ": [OK] PASSED" ELSE ": [X] FAILED")]
          ELSE <<>>

\* a finished run whose first check failed and whose last check passed
C2_Witness ==
    pc = "done" /\ ~results[1][2] /\ results[Len(FiveChecks)][2]

(* C3: a check that raises is caught at its own iteration: main() records
   (name, False) for it, prints the error, sets the outcome to failed and
   still runs every remaining check; main() returns, and returns 1. *)
C3_RaiseIsFailure ==
    \A i \in 1..Len(FiveChecks) :
        CheckFunc(i, fs).raised =>
            /\ iter >= i => /\ results[i] = <<FiveChecks[i], FALSE>>
                            /\ ~all_passed
                            /\ \E k \in 1..Len(out) : out[k] = ErrorLine(i)
            /\ Finished => /\ Len(results) = Len(FiveChecks)
                           /\ SelectSeq(out, IsHeading) = CheckHeadings
                           /\ rv = 1
            /\ pc = "done" => status = 1

\* a finished run in which a check raised and every other check passed
C3_Witness ==
    /\ pc = "done"
    /\ \E i \in 1..Len(FiveChecks) :
          /\ CheckFunc(i, fs).raised
          /\ i < Len(FiveChecks)
          /\ \A j \in 1..Len(FiveChecks) : j # i => results[j][2]

\* the directory that holds README.md as f does and nothing else
OnlyReadme(f) == [EmptyDirectory EXCEPT ![README] = f[README]]

(* C10: without pyproject.toml, the checks Version Consistency, Required
   Files, Package Metadata and Dependencies are all recorded as FAILED, none
   of them raises and none is skipped, the README Content result is the one
   README.md alone decides, and main() returns 1. *)
C10_NoPyproject ==
    (fs[PYPROJECT].kind = "absent" /\ Finished) =>
        /\ \A i \in {1, 2, 3, 5} :
              /\ results[i] = <<FiveChecks[i], FALSE>>
              /\ ~\E k \in 1..Len(out) : out[k] = ErrorLine(i)
              /\ \E k \in 1..Len(out) : out[k] = CheckHeadings[i]
        /\ results[4] = <<FiveChecks[4], ReturnedTrue(4, OnlyReadme(fs))>>
        /\ rv = 1

\* a finished run without pyproject.toml whose README check passed
C10_Witness ==
    pc = "done" /\ fs[PYPROJECT].kind = "absent" /\ results[4][2]
         /\ \E p \in DOMAIN fs : p # README /\ fs[p].kind # "absent"

---------------------------------------------------------------------------
(* Properties of the checks. *)

Returned == pc = "returned"

Printed(line) == \E k \in 1..Len(out) : out[k] = line

\* the token of the first line of a document that carries one, or ""
RECURSIVE FirstToken(_, _)
FirstToken(lines, i) ==
    IF i > Len(lines) THEN ""
    ELSE IF lines[i].token # "" THEN lines[i].token
    ELSE FirstToken(lines, i + 1)

IsFile(d) == d.kind = "file"
TokenOf(d) == FirstToken(d.lines, 1)

(* C4: check_version_consistency returns True exactly when both files exist
   and hold a version token and the two tokens are identical; otherwise it
   returns False, and the first condition that applies, in the order
   pyproject file, pyproject token, _version.py file, _version.py token,
   mismatch, decides the message (the mismatch message names both values). *)
C4_VersionConsistency ==
    Returned =>
        /\ ret.value <=> /\ IsFile(given.py) /\ TokenOf(given.py) # ""
                         /\ IsFile(given.ver) /\ TokenOf(given.ver) # ""
                         /\ TokenOf(given.py) = TokenOf(given.ver)
        /\ (given.py.kind = "absent" \/ IsFile(given.py))
           /\ (given.py.kind = "absent" \/ TokenOf(given.py) = ""
               \/ given.ver.kind = "absent" \/ IsFile(given.ver))
           => /\ ~ret.raised
              /\ Len(out) = 2
              /\ out[2] =
                   IF given.py.kind = "absent" THEN "   [X] pyproject.toml not found"
                   ELSE IF TokenOf(given.py) = "" THEN "   [X] Version not found in pyproject.toml"
                   ELSE IF given.ver.kind = "absent" THEN "   [X] _version.py not found"
                   ELSE IF TokenOf(given.ver) = "" THEN "   [X] Version not found in _version.py"
                   ELSE IF TokenOf(given.py) # TokenOf(given.ver)
                   THEN "   [X] Version mismatch: pyproject.toml=" \o TokenOf(given.py)
                        \o ", _version.py=" \o TokenOf(given.ver)
                   ELSE "   [OK] Version " \o TokenOf(given.py) \o " is consistent"

\* the check has returned False on two files whose tokens differ
C4_Witness ==
    /\ Returned /\ ~ret.raised /\ ~ret.value
    /\ IsFile(given.py) /\ IsFile(given.ver)
    /\ TokenOf(given.py) = "1.0.0" /\ TokenOf(given.ver) = "1.0.1"
    /\ Len(given.py.lines) = 2 /\ given.py.lines[1].token = ""

SevenPaths ==
    <<"README.md", "LICENSE", "pyproject.toml", "src/llm_regression_tester/__init__.py",
      "src/llm_regression_tester/llm_regression_tester.py",
      "src/llm_regression_tester/_version.py", "tests/test_basic.py">>

Place7(p) == CHOOSE i \in 1..Len(SevenPaths) : SevenPaths[i] = p

NotThere == {p \in Range(SevenPaths) : fs[p].kind = "absent"}

(* C5: check_required_files returns True if and only if all seven required
   paths exist; when it returns False the missing list holds exactly the
   required paths that do not exist, each once, in the order of the list. *)
C5_RequiredFiles ==
    Returned =>
        /\ ~ret.raised
        /\ ret.value <=> NotThere = {}
        /\ ~ret.value =>
              /\ Range(ret.listed) = NotThere
              /\ Len(ret.listed) = Cardinality(NotThere)
              /\ \A i, j \in 1..Len(ret.listed) :
                    i < j => Place7(ret.listed[i]) < Place7(ret.listed[j])
              /\ Printed("   [X] Missing required files: " \o ListRepr(ret.listed))

\* the check has returned False, the last path and one more missing
C5_Witness ==
    /\ Returned /\ ~ret.value /\ Len(ret.listed) = 2
    /\ ret.listed[2] = "tests/test_basic.py"
    /\ \E p \in DOMAIN fs : fs[p].kind = "dir"

(* C6: on a metadata document that leaves out exactly one of the seven
   required fields, check_package_metadata returns False and its missing
   list holds only that field; on a document that defines all seven it
   returns True; whatever other keys the document has and however many
   blanks it writes before the equals sign. *)
C6_OnlyTheMissingField ==
    Returned =>
        /\ Cardinality(given.missing) = 1 =>
              /\ ~ret.value
              /\ Len(ret.listed) = 1 /\ ret.listed[1] \in given.missing
        /\ given.missing = {} => ret.value

\* a section heading is written in some letter case
Written(section) == given.spelling[section] \in {"lower", "title", "upper"}

NotWritten(section) == ~Written(section)

(* C8: with README.md present, check_readme returns True if and only if the
   readme holds each of installation, usage and example in some letter case;
   when it returns False the missing list holds exactly the keywords that do
   not occur, in the order installation, usage, example. *)
C8_Readme ==
    (Returned /\ given.kind = "file") =>
        /\ ~ret.raised
        /\ ret.value <=> \A s \in {"installation", "usage", "example"} : Written(s)
        /\ ~ret.value =>
              /\ ret.listed = SelectSeq(<<"installation", "usage", "example">>, NotWritten)
              /\ Printed("   [X] README missing sections: " \o ListRepr(ret.listed))

\* a readme with Installation and USAGE and no example: only example is named
C8_Witness ==
    /\ Returned /\ given.kind = "file"
    /\ given.spelling["installation"] = "title" /\ given.spelling["usage"] = "upper"
    /\ given.spelling["example"] = "partial"
    /\ ~ret.value /\ ret.listed = <<"example">>

\* the dependencies array of the document names openai
NamesOpenAI ==
    given.array /\ \E i \in 1..Len(given.entries) : given.entries[i].openai

(* C7: with pyproject.toml present, check_dependencies returns False if the
   dependencies array names openai in any letter case and True if it does
   not or if there is no dependencies array, whatever the entries of the
   array are. *)
C7_OpenAIRejected ==
    (Returned /\ given.kind = "file") =>
        /\ ~ret.raised
        /\ ret.value <=> ~NamesOpenAI

(* C9: on a package that raises when it is loaded, whatever it raises, the
   import verifier prints the raised message in its failure line, prints no
   success line and exits with a non-zero status; on a package that loads
   and exposes both names it prints the version and exits with status 0. *)
C9_FailureLine ==
    pc = "exited" =>
        IF FromImport(pkg, sys_path).cls # "ok"
        THEN /\ Printed("[X] Import failed: " \o FromImport(pkg, sys_path).msg)
             /\ ~Printed("[OK] Import successful!")
             /\ status # 0
        ELSE /\ Printed("[P] Package version: " \o pkg.version)
             /\ status = 0

=============================================================================
